---- MODULE Spec2Model ----
(***************************************************************************)
(* Named cross-process counting semaphore on System V semaphore sets       *)
(* (src/src/unix.rs).  One key (one semaphore name) is modelled: every     *)
(* process calls Semaphore::new with the same name, so Semaphore::key      *)
(* hands all of them the same key_t.                                       *)
(*                                                                         *)
(* The kernel side (semget / semctl / semop / process exit) is modelled    *)
(* by what the calls made in unix.rs do to one semaphore set: its          *)
(* existence, its value, its sem_otime, and the per-process SEM_UNDO       *)
(* adjustment.  Each system call is one atomic step.                       *)
(*                                                                         *)
(* Each process calls new() once; the handle it gets is used by the        *)
(* threads of the process.  SpecKey runs the calls of Semaphore::key       *)
(* against each other, SpecNew the calls of new() from semget on, SpecOps  *)
(* runs wait / try_wait / post on the handles from the state construction  *)
(* ends in (SpecOpsIntr with signals interrupting wait), SpecJoin a late   *)
(* caller of new() together with operations and drops of handles, SpecWide *)
(* the calls of new() with counts at the edges of c_short.  Spec is all of *)
(* it together.  The build for Windows (src/src/windows.rs) is modelled by *)
(* its own few actions on one named semaphore object.                      *)
(***************************************************************************)
EXTENDS Integers, Naturals, Sequences, FiniteSets, TLC

\* ---------------------------------------------------------------- bounds
\* Threads of one process that use its handle (Semaphore is Send + Sync).
NumThreads == 2
\* Largest initial_count a caller passes.
MaxCount == 2
\* Largest value a freshly allocated semaphore holds before SETVAL
\* ("the initial value seems to be generally undefined").
MaxGarbage == 1
\* Number of post() calls overall.
MaxPosts == 2

\* ------------------------------------------------------ program constants
\* `for _ in 0..1000`
PollAttempts == 1000

\* The processes that call new() with the one name.
Procs == {"p1", "p2"}
Tids == 1..NumThreads
InitialCounts == 0..MaxCount

\* 'I' as libc::c_int, the project id given to ftok.
ProjId == 73
\* The inodes the host may give the token file when open(O_CREAT) creates
\* it, and the device the directory is on.
Inodes == {1, 2}
TokenDev == 1
\* The inode of the token file in the states that start past key().
TokenInode == CHOOSE i \in Inodes : TRUE
\* What open() may return on success: 0 when the process runs with
\* descriptor 0 closed, a positive descriptor otherwise.
Descriptors == {0, 3}
\* What errno may hold when it is read after a call that did not set it.
StaleErrnos == {"EEXIST", "other"}

\* libc::LONG is 32 bits wide.  LongQuarter is 2^30, a quarter of its
\* range; i32::MAX is written so that no intermediate value exceeds it.
LongBits == 32
LongQuarter == 2^(LongBits - 2)
LongMax == 2 * (LongQuarter - 1) + 1

\* libc::c_short is 16 bits wide.
ShortBits == 16
ShortMod == 2^ShortBits
ShortMax == 2^(ShortBits - 1) - 1

\* Counts at the edges of libc::c_short: the largest it holds, the first it
\* does not, and the first past its 16 bits.
WideCounts == {ShortMax, ShortMax + 1, ShortMod + 1}

VARIABLES
    curId,     \* id of the semaphore set that exists for the key; 0: none
    nextId,    \* next id semget hands out
    semval,    \* value of element 0 of the existing set
    otime,     \* sem_otime of the existing set; 0: no semop yet
    hist,      \* the initialising calls applied to the existing set, in order
    initCnt,   \* the cnt the creator of the existing set was called with
    semadj,    \* per process: the kernel's SEM_UNDO adjustment for the set
    pc,        \* per process: where its call of new() is
    semid,     \* per process: the local semid, then Semaphore.semid
    sem_op,    \* per process: buf.sem_op of the creator (line 84)
    polls,     \* per process: iterations of the sem_otime loop done
    result,    \* per process: what new() returned
    path,      \* per process: the branch of new() taken
    thr,       \* per process and thread: what the thread does with the handle
    last,      \* the last wait / try_wait / post that returned
    decs,      \* successful decrements so far (wait, try_wait == true)
    posts,     \* posts so far
    exits,     \* processes terminated so far
    arg,       \* per process: the cnt its call of new() was given
    counts,    \* the values of cnt the callers pass
    dir,       \* whether the directory temp_dir()/ipc-rs-sems exists
    file,      \* inode of the token file in it; 0: no such file
    key,       \* per process: the key_t Semaphore::key returned; 0: none
    fd,        \* per process: descriptor open() returned, still open; -1: none
    openRes,   \* per process: how the open() of line 171 ended
    hostFail,  \* per process: the call the host failed and key() gave up on
    utf8,      \* whether the path of the token file is valid UTF-8
    wcount,    \* windows.rs: count of the named semaphore object; -1: none
    whnd       \* windows.rs, per process: whether it holds a handle on it

vars == <<curId, nextId, semval, otime, hist, initCnt, semadj, pc, semid,
          sem_op, polls, result, path, thr, last, decs, posts, exits,
          arg, counts, dir, file, key, fd, openRes, hostFail, utf8, wcount,
          whnd>>

\* The named semaphore object of the build for Windows (src/src/windows.rs).
winVars == <<wcount, whnd>>
\* The file system side of Semaphore::key and what it leaves in the process.
keyVars == <<dir, file, key, fd, openRes, hostFail, utf8>>
\* What the steps of new() past Semaphore::key and the operations on a
\* handle never touch.
otherVars == <<counts, keyVars, winVars>>

kernelVars == <<curId, nextId, semval, otime, hist, initCnt>>
ghostOps == <<last, decs, posts>>

\* What `last` remembers of the operation that came right before it on the
\* same process's handle.
NoPre == [op |-> "none", before |-> 0, adjBefore |-> 0]

NoOp == [op |-> "none", proc |-> "none", before |-> 0, after |-> 0,
         ret |-> FALSE, adjBefore |-> 0, adjAfter |-> 0, intr |-> FALSE,
         pre |-> NoPre]

\* ftok(path, 'I'): the low 8 bits of the project id, the low 8 bits of the
\* device number and the low 16 bits of the inode number of the file.
Ftok(ino, dev, proj) ==
    (proj % 2^8) * 2^24 + (dev % 2^8) * 2^16 + (ino % 2^16)

\* The key every process holds once Semaphore::key has returned.
TokenKey == Ftok(TokenInode, TokenDev, ProjId)

\* `cnt as libc::c_short`: keep the low 16 bits, read as two's complement.
AsShort(n) ==
    LET m == n % ShortMod
    IN  IF m > ShortMax THEN m - ShortMod ELSE m

\* `cnt as libc::LONG`: keep the low 32 bits, read as two's complement.
\* top is bits 30-31 of n and low is bits 0-29; with bit 31 set the value
\* is negative.
AsLong(n) ==
    LET top == (n \div LongQuarter) % 4
        low == n % LongQuarter
    IN  IF top >= 2 THEN (top - 4) * LongQuarter + low
        ELSE top * LongQuarter + low

\* Whether the kernel accepts semop(sem_op = op) with SEM_UNDO from a
\* process whose undo adjustment is adj: the new adjustment adj - op has to
\* stay within -SEMAEM - 1 .. SEMAEM (SEMAEM = SEMVMX); otherwise the call
\* fails with ERANGE and changes nothing.
UndoCan(adj, op) ==
    /\ adj - op <= ShortMax
    /\ adj - op >= -ShortMax - 1

\* Whether the kernel can complete semop(sem_op = op) on a value v now.
SemopCan(v, op) ==
    IF op > 0 THEN v + op <= ShortMax
    ELSE IF op = 0 THEN v = 0
    ELSE v >= -op

\* No named semaphore object: the build is the one for unix.
NoWin ==
    /\ wcount = -1
    /\ whnd = [p \in Procs |-> FALSE]

\* The state in which Semaphore::key has handed every process the key of
\* the one name (line 65) and no set exists for it: each is about to call
\* semget.
Init ==
    /\ curId = 0
    /\ nextId = 1
    /\ semval = 0
    /\ otime = 0
    /\ hist = <<>>
    /\ initCnt = 0
    /\ semadj = [p \in Procs |-> 0]
    /\ pc = [p \in Procs |-> "idle"]
    /\ semid = [p \in Procs |-> 0]
    /\ sem_op = [p \in Procs |-> 0]
    /\ polls = [p \in Procs |-> 0]
    /\ result = [p \in Procs |-> "none"]
    /\ path = [p \in Procs |-> "none"]
    /\ thr = [p \in Procs |-> [t \in Tids |-> "none"]]
    /\ last = NoOp
    /\ decs = 0
    /\ posts = 0
    /\ exits = 0
    /\ arg = [p \in Procs |-> 0]
    /\ counts = InitialCounts
    /\ dir = TRUE
    /\ file = TokenInode
    /\ key = [p \in Procs |-> TokenKey]
    /\ fd = [p \in Procs |-> -1]
    /\ openRes = [p \in Procs |-> "none"]
    /\ hostFail = [p \in Procs |-> "none"]
    /\ utf8 = TRUE
    /\ NoWin

\* The state in which no process has entered new() yet.  The directory and
\* the token file are there or not, as earlier runs left them.
InitKey ==
    /\ curId = 0
    /\ nextId = 1
    /\ semval = 0
    /\ otime = 0
    /\ hist = <<>>
    /\ initCnt = 0
    /\ semadj = [p \in Procs |-> 0]
    /\ pc = [p \in Procs |-> "start"]
    /\ semid = [p \in Procs |-> 0]
    /\ sem_op = [p \in Procs |-> 0]
    /\ polls = [p \in Procs |-> 0]
    /\ result = [p \in Procs |-> "none"]
    /\ path = [p \in Procs |-> "none"]
    /\ thr = [p \in Procs |-> [t \in Tids |-> "none"]]
    /\ last = NoOp
    /\ decs = 0
    /\ posts = 0
    /\ exits = 0
    /\ arg = [p \in Procs |-> 0]
    /\ counts = InitialCounts
    /\ dir \in BOOLEAN
    /\ file \in (IF dir THEN {0} \cup Inodes ELSE {0})
    /\ key = [p \in Procs |-> 0]
    /\ fd = [p \in Procs |-> -1]
    /\ openRes = [p \in Procs |-> "none"]
    /\ hostFail = [p \in Procs |-> "none"]
    /\ utf8 \in BOOLEAN
    /\ NoWin

\* What Semaphore::key leaves alone: the semaphore sets, the handles and
\* the path env::temp_dir() gives (lines 142-152), which it only reads.
keyFrame == <<kernelVars, semadj, semid, sem_op, polls, path, thr, last,
              decs, posts, exits, arg, counts, utf8, winVars>>

\* key() returns Err(e) and new() passes it on (the `?` of line 65).
KeyErr(p) ==
    /\ pc' = [pc EXCEPT ![p] = "done"]
    /\ result' = [result EXCEPT ![p] = "Err"]

\* Line 163: `let _ = fs::create_dir_all(&dir)`.  The directory is there
\* afterwards unless the host refuses to create it; the outcome is dropped.
\* create_dir_all succeeds on a directory that exists, whoever made it.
KeyDir1(p) ==
    /\ pc[p] = "start"
    /\ \E fails \in BOOLEAN : dir' = (dir \/ ~fails)
    /\ pc' = [pc EXCEPT ![p] = "dir1"]
    /\ UNCHANGED <<keyFrame, result, file, key, fd, openRes, hostFail>>

\* Line 164: `fs::create_dir_all(&dir).unwrap()`.  When create_dir_all
\* returns Err (the host refuses the mkdir with anything but "exists", the
\* directory being there or not), unwrap() panics: new() does not return.
KeyDir2(p) ==
    /\ pc[p] = "dir1"
    /\ \E fails \in BOOLEAN :
        IF fails
        THEN /\ pc' = [pc EXCEPT ![p] = "panicked"]
             /\ hostFail' = [hostFail EXCEPT ![p] = "mkdir"]
             /\ UNCHANGED dir
        ELSE /\ dir' = TRUE
             /\ pc' = [pc EXCEPT ![p] = "dir2"]
             /\ UNCHANGED hostFail
    /\ UNCHANGED <<keyFrame, result, file, key, fd, openRes>>

\* KeyOpen that takes EEXIST for a failure like any other.
KeyOpen_NoEexist(p) ==
    /\ pc[p] = "dir2"
    /\ IF ~utf8
       THEN /\ pc' = [pc EXCEPT ![p] = "panicked"]
            /\ UNCHANGED <<file, openRes, result>>
       ELSE IF file # 0
       THEN /\ openRes' = [openRes EXCEPT ![p] = "EEXIST"]
            /\ KeyErr(p)
            /\ UNCHANGED file
       ELSE /\ file' \in Inodes
            /\ openRes' = [openRes EXCEPT ![p] = "fd"]
            /\ pc' = [pc EXCEPT ![p] = "opened"]
            /\ UNCHANGED result
    /\ UNCHANGED <<keyFrame, dir, key, fd, hostFail>>

\* Line 170: `filename.to_str().unwrap()`.  The path is temp_dir() joined
\* with names made of ASCII letters and digits (lines 142-152), so to_str()
\* is None exactly when the temporary directory's path is not valid UTF-8;
\* unwrap() then panics before open() is called: new() does not return, and
\* no file and no descriptor has been made.
\* Lines 171-183: open(filename, O_EXCL | O_CREAT | O_RDWR, 0o640).
\*   the host fails the open (EACCES, EMFILE, ...): key returns Err;
\*   the file exists: EEXIST, the arm of line 180, on to ftok;
\*   the file is created and the descriptor d is positive: close(d), on;
\*   the file is created and d is 0: `fd > 0` is false, the descriptor
\*   stays open and last_os_error() reads an errno the successful open did
\*   not set: whatever an earlier call left there.  e is that value:
\*   EEXIST goes on to ftok, anything else is returned as the error.
KeyOpen(p) ==
    /\ pc[p] = "dir2"
    /\ \E fails \in BOOLEAN, d \in Descriptors, e \in StaleErrnos :
        IF ~utf8
        THEN /\ pc' = [pc EXCEPT ![p] = "panicked"]
             /\ UNCHANGED <<file, fd, openRes, hostFail, result>>
        ELSE IF fails
        THEN /\ openRes' = [openRes EXCEPT ![p] = "error"]
             /\ hostFail' = [hostFail EXCEPT ![p] = "open"]
             /\ KeyErr(p)
             /\ UNCHANGED <<file, fd>>
        ELSE IF file # 0
        THEN /\ openRes' = [openRes EXCEPT ![p] = "EEXIST"]
             /\ pc' = [pc EXCEPT ![p] = "opened"]
             /\ UNCHANGED <<file, fd, hostFail, result>>
        ELSE IF d > 0
        THEN /\ file' \in Inodes
             /\ openRes' = [openRes EXCEPT ![p] = "fd"]
             /\ pc' = [pc EXCEPT ![p] = "opened"]
             /\ UNCHANGED <<fd, hostFail, result>>
        ELSE /\ file' \in Inodes
             /\ openRes' = [openRes EXCEPT ![p] = "fd0"]
             /\ fd' = [fd EXCEPT ![p] = d]
             /\ IF e = "EEXIST"
                THEN /\ pc' = [pc EXCEPT ![p] = "opened"]
                     /\ UNCHANGED result
                ELSE KeyErr(p)
             /\ UNCHANGED hostFail
    /\ UNCHANGED <<keyFrame, dir, key>>

\* Lines 186-191: ftok(filename, 'I'); -1 is returned as the error,
\* anything else is the key and new() goes on to semget.
KeyFtok(p) ==
    /\ pc[p] = "opened"
    /\ \E fails \in BOOLEAN :
        LET k == IF fails \/ file = 0 THEN -1
                 ELSE Ftok(file, TokenDev, ProjId)
        IN  IF k # -1
            THEN /\ key' = [key EXCEPT ![p] = k]
                 /\ pc' = [pc EXCEPT ![p] = "idle"]
                 /\ UNCHANGED <<result, hostFail>>
            ELSE /\ hostFail' = [hostFail EXCEPT ![p] = "ftok"]
                 /\ KeyErr(p)
                 /\ UNCHANGED key
    /\ UNCHANGED <<keyFrame, dir, file, fd, openRes>>

\* The set for the key is gone: the state of "no set".
Unborn ==
    /\ curId' = 0
    /\ semval' = 0
    /\ otime' = 0
    /\ hist' = <<>>
    /\ initCnt' = 0
    /\ UNCHANGED nextId

\* new() returns Err: no handle exists.  semid keeps the id the call last
\* held, for the record.
ReturnErr(p, e) ==
    /\ pc' = [pc EXCEPT ![p] = "done"]
    /\ result' = [result EXCEPT ![p] = e]
    /\ sem_op' = [sem_op EXCEPT ![p] = 0]
    /\ UNCHANGED <<semid, thr>>

\* new() returns Ok(Semaphore { semid }), line 130: the threads of the
\* process may use the handle.
ReturnOk(p) ==
    /\ pc' = [pc EXCEPT ![p] = "done"]
    /\ result' = [result EXCEPT ![p] = "Ok"]
    /\ sem_op' = [sem_op EXCEPT ![p] = 0]
    /\ thr' = [thr EXCEPT ![p] = [t \in Tids |-> "ready"]]
    /\ UNCHANGED semid

\* NewSemget without IPC_EXCL: semget hands back the existing set and the
\* caller takes itself for its creator.
NewSemget_NoExcl(p) ==
    /\ pc[p] = "idle"
    /\ \E k \in counts :
        /\ arg' = [arg EXCEPT ![p] = k]
        /\ IF curId = 0
           THEN /\ \E g \in 0..MaxGarbage : semval' = g
                /\ curId' = nextId
                /\ nextId' = nextId + 1
                /\ otime' = 0
                /\ hist' = <<>>
                /\ initCnt' = k
                /\ semid' = [semid EXCEPT ![p] = nextId]
           ELSE /\ semid' = [semid EXCEPT ![p] = curId]
                /\ UNCHANGED kernelVars
        /\ sem_op' = [sem_op EXCEPT ![p] = AsShort(k)]
        /\ path' = [path EXCEPT ![p] = "initializer"]
        /\ pc' = [pc EXCEPT ![p] = "created"]
    /\ UNCHANGED <<result, thr, semadj, polls, ghostOps, exits>>
    /\ UNCHANGED otherVars

\* new(), line 80: semget(key, 1, IPC_CREAT | IPC_EXCL | 0o666).
\*   no set for the key: the set is allocated, its value undefined, and
\*   buf.sem_op = cnt as c_short is built (lines 82-86);
\*   a set exists: EEXIST, the match arm of line 98 is taken;
\*   the allocation fails (ENOSPC, ENOMEM): new returns Err (line 125).
NewSemget(p) ==
    /\ pc[p] = "idle"
    /\ \E k \in counts, fails \in BOOLEAN :
        /\ arg' = [arg EXCEPT ![p] = k]
        /\ IF curId = 0 /\ fails
           THEN /\ ReturnErr(p, "Err")
                /\ UNCHANGED <<kernelVars, path>>
           ELSE IF curId = 0
           THEN /\ \E g \in 0..MaxGarbage : semval' = g
                /\ curId' = nextId
                /\ nextId' = nextId + 1
                /\ otime' = 0
                /\ hist' = <<>>
                /\ initCnt' = k
                /\ semid' = [semid EXCEPT ![p] = nextId]
                /\ sem_op' = [sem_op EXCEPT ![p] = AsShort(k)]
                /\ path' = [path EXCEPT ![p] = "initializer"]
                /\ pc' = [pc EXCEPT ![p] = "created"]
                /\ UNCHANGED <<result, thr>>
           ELSE /\ path' = [path EXCEPT ![p] = "joiner"]
                /\ pc' = [pc EXCEPT ![p] = "eexist"]
                /\ UNCHANGED <<kernelVars, semid, sem_op, result, thr>>
    /\ UNCHANGED <<semadj, polls, ghostOps, exits>>
    /\ UNCHANGED otherVars

\* Rollback without the IPC_RMID of line 93.
Rollback_NoRmid(p) ==
    /\ UNCHANGED kernelVars
    /\ ReturnErr(p, "Err")

\* Lines 92-94: the creator's rollback, semctl(semid, 0, IPC_RMID), and the
\* return of the error.  Removing a set that is already gone changes nothing.
Rollback(p) ==
    /\ IF semid[p] = curId THEN Unborn ELSE UNCHANGED kernelVars
    /\ ReturnErr(p, "Err")

\* InitSetval without its effect: the value stays what the allocation left.
InitSetval_NoClamp(p) ==
    /\ pc[p] = "created"
    /\ hist' = Append(hist, "SETVAL")
    /\ pc' = [pc EXCEPT ![p] = "setval_done"]
    /\ UNCHANGED <<curId, nextId, semval, otime, initCnt, semid, sem_op,
                   result, thr, semadj, polls, path, ghostOps, exits>>
    /\ UNCHANGED <<arg, otherVars>>

\* Line 91, left operand: semctl(semid, 0, SETVAL, 0).  It sets the value
\* and leaves sem_otime alone.  When it fails the `||` is decided, semop is
\* not called, and lines 92-94 run.
InitSetval(p) ==
    /\ pc[p] = "created"
    /\ \E fails \in BOOLEAN :
        IF fails \/ semid[p] # curId
        THEN Rollback(p)
        ELSE /\ semval' = 0
             /\ hist' = Append(hist, "SETVAL")
             /\ pc' = [pc EXCEPT ![p] = "setval_done"]
             /\ UNCHANGED <<curId, nextId, otime, initCnt, semid, sem_op,
                            result, thr>>
    /\ UNCHANGED <<semadj, polls, path, ghostOps, exits>>
    /\ UNCHANGED <<arg, otherVars>>

\* Line 91, right operand: semop(semid, &buf, 1) with sem_flg = 0 (blocking,
\* no SEM_UNDO).  A completed semop stamps sem_otime.  A sem_op the value
\* cannot absorb blocks the caller inside new().
InitSemop(p) ==
    /\ pc[p] = "setval_done"
    /\ \E fails \in BOOLEAN :
        IF fails \/ semid[p] # curId
        THEN Rollback(p)
        ELSE /\ SemopCan(semval, sem_op[p])
             /\ semval' = semval + sem_op[p]
             /\ otime' = 1
             /\ hist' = Append(hist, "SEMOP")
             /\ ReturnOk(p)
             /\ UNCHANGED <<curId, nextId, initCnt>>
    /\ UNCHANGED <<semadj, polls, path, ghostOps, exits>>
    /\ UNCHANGED <<arg, otherVars>>

\* JoinReopen that goes back to the exclusive create when the set is gone.
JoinReopen_Retry(p) ==
    /\ pc[p] = "eexist"
    /\ IF curId = 0
       THEN /\ pc' = [pc EXCEPT ![p] = "idle"]
            /\ UNCHANGED semid
       ELSE /\ semid' = [semid EXCEPT ![p] = curId]
            /\ pc' = [pc EXCEPT ![p] = "polling"]
    /\ UNCHANGED <<sem_op, result, thr>>
    /\ UNCHANGED <<kernelVars, semadj, polls, path, ghostOps, exits>>
    /\ UNCHANGED <<arg, otherVars>>

\* Lines 101-104: semget(key, 1, 0) after EEXIST.  No set for the key any
\* more: new returns the error.
JoinReopen(p) ==
    /\ pc[p] = "eexist"
    /\ IF curId = 0
       THEN ReturnErr(p, "Err")
       ELSE /\ semid' = [semid EXCEPT ![p] = curId]
            /\ pc' = [pc EXCEPT ![p] = "polling"]
            /\ UNCHANGED <<sem_op, result, thr>>
    /\ UNCHANGED <<kernelVars, semadj, polls, path, ghostOps, exits>>
    /\ UNCHANGED <<arg, otherVars>>

\* JoinPoll that, once the set is initialised, sets its value to the count
\* the joiner was called with: semctl(semid, 0, SETVAL, cnt).
JoinPoll_Reinit(p) ==
    /\ pc[p] = "polling"
    /\ polls[p] < PollAttempts
    /\ semid[p] = curId
    /\ otime # 0
    /\ ReturnOk(p)
    /\ semval' = arg[p]
    /\ UNCHANGED <<curId, nextId, otime, hist, initCnt>>
    /\ UNCHANGED <<polls, semadj, path, ghostOps, exits>>
    /\ UNCHANGED <<arg, otherVars>>

\* JoinPoll with the test of line 113 dropped: the first read that succeeds
\* ends the loop with ok.
JoinPoll_NoMarkerTest(p) ==
    /\ pc[p] = "polling"
    /\ polls[p] < PollAttempts
    /\ IF semid[p] # curId
       THEN ReturnErr(p, "Err")
       ELSE ReturnOk(p)
    /\ polls' = [polls EXCEPT ![p] = 0]
    /\ UNCHANGED <<kernelVars, semadj, path, ghostOps, exits>>
    /\ UNCHANGED <<arg, otherVars>>

\* JoinPoll whose loop never counts: `loop { ... }` in place of
\* `for _ in 0..1000`.
JoinPoll_Unbounded(p) ==
    /\ pc[p] = "polling"
    /\ IF semid[p] # curId
       THEN ReturnErr(p, "Err")
       ELSE IF otime # 0
       THEN ReturnOk(p)
       ELSE UNCHANGED <<pc, result, semid, sem_op, thr>>
    /\ UNCHANGED <<polls, kernelVars, semadj, path, ghostOps, exits>>
    /\ UNCHANGED <<arg, otherVars>>

\* Lines 108-123: one iteration of the loop, semctl(semid, 0, IPC_STAT, &buf).
\*   the set is gone: new returns the error (line 111);
\*   sem_otime != 0: ok, new returns the handle (line 130);
\*   sem_otime == 0: next iteration; after the last one `ok` is still false
\*   and new returns TimedOut (lines 118-123).
\* polls counts the reads made; it is kept after a timeout and is 0 after
\* any other return.
JoinPoll(p) ==
    /\ pc[p] = "polling"
    /\ polls[p] < PollAttempts
    /\ IF semid[p] # curId
       THEN /\ ReturnErr(p, "Err")
            /\ polls' = [polls EXCEPT ![p] = 0]
       ELSE IF otime # 0
       THEN /\ ReturnOk(p)
            /\ polls' = [polls EXCEPT ![p] = 0]
       ELSE IF polls[p] + 1 < PollAttempts
       THEN /\ polls' = [polls EXCEPT ![p] = polls[p] + 1]
            /\ UNCHANGED <<pc, result, semid, sem_op, thr>>
       ELSE /\ polls' = [polls EXCEPT ![p] = polls[p] + 1]
            /\ ReturnErr(p, "TimedOut")
    /\ UNCHANGED <<kernelVars, semadj, path, ghostOps, exits>>
    /\ UNCHANGED <<arg, otherVars>>

\* Modify with sem_flg lacking SEM_UNDO: the kernel keeps no adjustment.
Modify_NoUndo(p, amt) ==
    /\ semval' = semval + amt
    /\ otime' = 1
    /\ UNCHANGED <<curId, nextId, hist, initCnt, semadj>>

\* modify(amt, wait), lines 225-236, when the semop completes: sem_op = amt
\* with SEM_UNDO in sem_flg, so the kernel subtracts amt from the calling
\* process's undo adjustment; sem_otime is stamped.
Modify(p, amt) ==
    /\ semval' = semval + amt
    /\ otime' = 1
    /\ semadj' = [semadj EXCEPT ![p] = semadj[p] - amt]
    /\ UNCHANGED <<curId, nextId, hist, initCnt>>

\* The record of an operation of process p that returns r: the value and
\* the process's undo adjustment before and after it and, in `pre`, the
\* operation made through the same handle just before, when nothing has
\* touched the set in between.  (The threads of a process share the handle
\* and the undo adjustment; the record does not tell them apart.)  `intr`
\* tells whether the call was interrupted on its way (wait only).
Returned(p, op, r) ==
    [op |-> op, proc |-> p, before |-> semval, after |-> semval',
     ret |-> r, adjBefore |-> semadj[p], adjAfter |-> semadj'[p],
     intr |-> FALSE,
     pre |-> IF /\ last.proc = p
                /\ last.after = semval
                /\ last.adjAfter = semadj[p]
             THEN [op |-> last.op, before |-> last.before,
                   adjBefore |-> last.adjBefore]
             ELSE NoPre]

\* panic!: the thread is gone, nothing else changes.
Panic(p, t) ==
    /\ thr' = [thr EXCEPT ![p][t] = "panicked"]
    /\ UNCHANGED <<kernelVars, semadj, ghostOps>>

\* wait(), line 194: the thread enters the loop and sits in the blocking
\* semop of modify(-1, true).
WaitCall(p, t) ==
    /\ thr[p][t] = "ready"
    /\ thr' = [thr EXCEPT ![p][t] = "waiting"]
    /\ UNCHANGED <<kernelVars, semadj, pc, semid, sem_op, polls, result, path,
                   ghostOps, exits>>
    /\ UNCHANGED <<arg, otherVars>>

\* WaitReturn calling modify(-1, false) and taking EAGAIN for success: on a
\* zero count wait returns at once, nothing decremented.
WaitReturn_NoWait(p, t) ==
    /\ thr[p][t] = "waiting"
    /\ IF SemopCan(semval, -1)
       THEN Modify(p, -1)
       ELSE UNCHANGED <<kernelVars, semadj>>
    /\ thr' = [thr EXCEPT ![p][t] = "ready"]
    /\ last' = Returned(p, "wait", TRUE)
    /\ decs' = decs + 1
    /\ UNCHANGED <<posts, pc, semid, sem_op, polls, result, path, exits>>
    /\ UNCHANGED <<arg, otherVars>>

\* wait() whose match has no EINTR arm: the interrupted semop panics.
Interrupt_Panics(p, t) ==
    /\ thr[p][t] \in {"waiting", "retrying"}
    /\ semid[p] = curId
    /\ ~SemopCan(semval, -1)
    /\ Panic(p, t)
    /\ UNCHANGED <<pc, semid, sem_op, polls, result, path, exits>>
    /\ UNCHANGED <<arg, otherVars>>

\* wait(), lines 196-201: a signal reaches the thread while it sleeps in
\* semop (the value does not allow the decrement), which returns -1 with
\* EINTR and has changed nothing; the match arm of line 201 is empty and
\* the loop calls modify(-1, true) again.
Interrupt(p, t) ==
    /\ thr[p][t] \in {"waiting", "retrying"}
    /\ semid[p] = curId
    /\ ~SemopCan(semval, -1)
    /\ thr' = [thr EXCEPT ![p][t] = "retrying"]
    /\ UNCHANGED <<kernelVars, semadj, ghostOps>>
    /\ UNCHANGED <<pc, semid, sem_op, polls, result, path, exits>>
    /\ UNCHANGED <<arg, otherVars>>

\* wait(), lines 195-204: modify(-1, true) completes once the value is
\* positive, and wait returns; on a set that is gone, or when the undo
\* adjustment would leave its range (ERANGE), semop fails with an error
\* that is not EINTR, and wait panics.  The thread is in its first semop
\* ("waiting") or in one the loop made after EINTR ("retrying").
WaitReturn(p, t) ==
    /\ thr[p][t] \in {"waiting", "retrying"}
    /\ IF semid[p] # curId
       THEN Panic(p, t)
       ELSE IF SemopCan(semval, -1) /\ ~UndoCan(semadj[p], -1)
       THEN Panic(p, t)
       ELSE /\ SemopCan(semval, -1)
            /\ Modify(p, -1)
            /\ thr' = [thr EXCEPT ![p][t] = "ready"]
            /\ last' = [Returned(p, "wait", TRUE)
                           EXCEPT !.intr = (thr[p][t] = "retrying")]
            /\ decs' = decs + 1
            /\ UNCHANGED posts
    /\ UNCHANGED <<pc, semid, sem_op, polls, result, path, exits>>
    /\ UNCHANGED <<arg, otherVars>>

\* TryWait answering `true` whatever modify returned.
TryWait_AlwaysTrue(p, t) ==
    /\ thr[p][t] = "ready"
    /\ IF SemopCan(semval, -1)
       THEN Modify(p, -1)
       ELSE UNCHANGED <<kernelVars, semadj>>
    /\ last' = Returned(p, "try_wait", TRUE)
    /\ decs' = decs + 1
    /\ UNCHANGED <<thr, posts, pc, semid, sem_op, polls, result, path, exits>>
    /\ UNCHANGED <<arg, otherVars>>

\* TryWait calling modify(-1, true): without IPC_NOWAIT the semop blocks on
\* a zero count.
TryWait_Blocks(p, t) ==
    /\ thr[p][t] = "ready"
    /\ SemopCan(semval, -1)
    /\ Modify(p, -1)
    /\ last' = Returned(p, "try_wait", TRUE)
    /\ decs' = decs + 1
    /\ UNCHANGED <<thr, posts, pc, semid, sem_op, polls, result, path, exits>>
    /\ UNCHANGED <<arg, otherVars>>

\* try_wait(), lines 207-216: modify(-1, false); EAGAIN is `false`; any
\* other failure panics: the set is gone, or the value allows the decrement
\* and the undo adjustment would leave its range (ERANGE).
TryWait(p, t) ==
    /\ thr[p][t] = "ready"
    /\ IF semid[p] # curId
       THEN Panic(p, t)
       ELSE IF SemopCan(semval, -1) /\ ~UndoCan(semadj[p], -1)
       THEN Panic(p, t)
       ELSE IF SemopCan(semval, -1)
       THEN /\ Modify(p, -1)
            /\ last' = Returned(p, "try_wait", TRUE)
            /\ decs' = decs + 1
            /\ UNCHANGED <<thr, posts>>
       ELSE /\ UNCHANGED <<kernelVars, semadj, thr, decs, posts>>
            /\ last' = Returned(p, "try_wait", FALSE)
    /\ UNCHANGED <<pc, semid, sem_op, polls, result, path, exits>>
    /\ UNCHANGED <<arg, otherVars>>

\* Post calling modify(2, true).
Post_Two(p, t) ==
    /\ thr[p][t] = "ready"
    /\ posts < MaxPosts
    /\ Modify(p, 2)
    /\ last' = Returned(p, "post", TRUE)
    /\ posts' = posts + 1
    /\ UNCHANGED <<thr, decs, pc, semid, sem_op, polls, result, path, exits>>
    /\ UNCHANGED <<arg, otherVars>>

\* Post making its semop without SEM_UNDO: the undo adjustment stays.
Post_NoUndo(p, t) ==
    /\ thr[p][t] = "ready"
    /\ posts < MaxPosts
    /\ semval' = semval + 1
    /\ otime' = 1
    /\ UNCHANGED <<curId, nextId, hist, initCnt, semadj>>
    /\ last' = Returned(p, "post", TRUE)
    /\ posts' = posts + 1
    /\ UNCHANGED <<thr, decs, pc, semid, sem_op, polls, result, path, exits>>
    /\ UNCHANGED <<arg, otherVars>>

\* post(), lines 218-223: modify(1, true); any failure panics: the set is
\* gone, or the value or the undo adjustment would leave its range (ERANGE).
Post(p, t) ==
    /\ thr[p][t] = "ready"
    /\ posts < MaxPosts
    /\ IF semid[p] # curId \/ ~SemopCan(semval, 1) \/ ~UndoCan(semadj[p], 1)
       THEN Panic(p, t)
       ELSE /\ Modify(p, 1)
            /\ last' = Returned(p, "post", TRUE)
            /\ posts' = posts + 1
            /\ UNCHANGED <<thr, decs>>
    /\ UNCHANGED <<pc, semid, sem_op, polls, result, path, exits>>
    /\ UNCHANGED <<arg, otherVars>>

\* Drop that removes the set, as a destructor of an owned kernel object
\* would: semctl(semid, 0, IPC_RMID).
Drop_Rmid(p) ==
    /\ pc[p] = "done"
    /\ result[p] = "Ok"
    /\ \A t \in Tids : thr[p][t] \in {"ready", "panicked"}
    /\ pc' = [pc EXCEPT ![p] = "dropped"]
    /\ thr' = [thr EXCEPT ![p] = [t \in Tids |-> "none"]]
    /\ IF semid[p] = curId THEN Unborn ELSE UNCHANGED kernelVars
    /\ UNCHANGED semadj
    /\ last' = Returned(p, "drop", TRUE)
    /\ UNCHANGED <<semid, sem_op, polls, result, path, decs, posts, exits>>
    /\ UNCHANGED <<arg, otherVars>>

\* impl Drop for Semaphore, lines 239-241: the body is empty.  The handle
\* is gone from the process (no thread is inside a call on it, each of them
\* borrows it); the set, its value and the process's undo adjustment stay.
Drop(p) ==
    /\ pc[p] = "done"
    /\ result[p] = "Ok"
    /\ \A t \in Tids : thr[p][t] \in {"ready", "panicked"}
    /\ pc' = [pc EXCEPT ![p] = "dropped"]
    /\ thr' = [thr EXCEPT ![p] = [t \in Tids |-> "none"]]
    /\ UNCHANGED <<kernelVars, semadj>>
    /\ last' = Returned(p, "drop", TRUE)
    /\ UNCHANGED <<semid, sem_op, polls, result, path, decs, posts, exits>>
    /\ UNCHANGED <<arg, otherVars>>

\* The kernel keeps a semaphore value within 0..SEMVMX when it applies an
\* undo adjustment.
Clamp(v) == IF v < 0 THEN 0 ELSE IF v > ShortMax THEN ShortMax ELSE v

\* The process terminates, at any point after it called new().  The kernel
\* applies its SEM_UNDO adjustment to the set; the set itself stays
\* (Drop does nothing, lines 239-241, and nothing else removes it).  The
\* exit is recorded in `last` like an operation: the value and the
\* process's adjustment before and after it.
Terminate(p) ==
    /\ pc[p] \in {"created", "setval_done", "eexist", "polling", "dropped"}
       \/ (pc[p] = "done" /\ result[p] = "Ok")
    /\ pc' = [pc EXCEPT ![p] = "exited"]
    /\ thr' = [thr EXCEPT ![p] = [t \in Tids |-> "none"]]
    /\ semval' = IF semid[p] = curId /\ curId # 0
                 THEN Clamp(semval + semadj[p]) ELSE semval
    /\ semadj' = [semadj EXCEPT ![p] = 0]
    /\ sem_op' = [sem_op EXCEPT ![p] = 0]
    /\ polls' = [polls EXCEPT ![p] = 0]
    /\ exits' = exits + 1
    /\ last' = Returned(p, "exit", TRUE)
    /\ UNCHANGED <<curId, nextId, otime, hist, initCnt, semid, result, path,
                   decs, posts>>
    /\ UNCHANGED <<arg, otherVars>>

\* The steps of new().
NextNew ==
    \E p \in Procs :
        \/ NewSemget(p)
        \/ InitSetval(p)
        \/ InitSemop(p)
        \/ JoinReopen(p)
        \/ JoinPoll(p)
        \/ Terminate(p)

\* The operations on a handle.
NextOps ==
    \E p \in Procs :
        \/ Terminate(p)
        \/ \E t \in Tids :
            \/ WaitCall(p, t)
            \/ WaitReturn(p, t)
            \/ TryWait(p, t)
            \/ Post(p, t)

\* ------------------------------------------------ src/src/windows.rs
\* The build for Windows, in the state in which no process has called new()
\* and no object exists for the name.
InitWin ==
    /\ curId = 0
    /\ nextId = 1
    /\ semval = 0
    /\ otime = 0
    /\ hist = <<>>
    /\ initCnt = 0
    /\ semadj = [p \in Procs |-> 0]
    /\ pc = [p \in Procs |-> "w_idle"]
    /\ semid = [p \in Procs |-> 0]
    /\ sem_op = [p \in Procs |-> 0]
    /\ polls = [p \in Procs |-> 0]
    /\ result = [p \in Procs |-> "none"]
    /\ path = [p \in Procs |-> "none"]
    /\ thr = [p \in Procs |-> [t \in Tids |-> "none"]]
    /\ last = NoOp
    /\ decs = 0
    /\ posts = 0
    /\ exits = 0
    /\ arg = [p \in Procs |-> 0]
    /\ counts = InitialCounts
    /\ dir = FALSE
    /\ file = 0
    /\ key = [p \in Procs |-> 0]
    /\ fd = [p \in Procs |-> -1]
    /\ openRes = [p \in Procs |-> "none"]
    /\ hostFail = [p \in Procs |-> "none"]
    /\ utf8 = TRUE
    /\ wcount = -1
    /\ whnd = [p \in Procs |-> FALSE]

\* What the build for Windows never touches.
winFrame == <<kernelVars, semadj, semid, sem_op, polls, path, thr, exits,
              counts, keyVars>>

\* windows.rs new(), lines 36-55: CreateSemaphoreW(null, cnt as LONG,
\* i32::MAX, name).  The host opens the object when one exists for the name
\* and leaves its count alone; otherwise it creates one with the initial
\* count, which it refuses when negative.  A null handle is Err.
WinNew(p) ==
    /\ pc[p] = "w_idle"
    /\ \E k \in counts, fails \in BOOLEAN :
        /\ arg' = [arg EXCEPT ![p] = k]
        /\ IF fails \/ (wcount = -1 /\ AsLong(k) < 0)
           THEN /\ result' = [result EXCEPT ![p] = "Err"]
                /\ UNCHANGED winVars
           ELSE /\ result' = [result EXCEPT ![p] = "Ok"]
                /\ whnd' = [whnd EXCEPT ![p] = TRUE]
                /\ wcount' = IF wcount = -1 THEN AsLong(k) ELSE wcount
    /\ pc' = [pc EXCEPT ![p] = "w_done"]
    /\ UNCHANGED <<winFrame, ghostOps>>

\* A panic in an operation of windows.rs: nothing of the object changes.
WinPanic(p) ==
    /\ pc' = [pc EXCEPT ![p] = "w_panicked"]
    /\ UNCHANGED <<wcount, ghostOps>>

\* windows.rs wait(), lines 57-63: WaitForSingleObject(handle, INFINITE).
\* The call completes with WAIT_OBJECT_0 once the count is positive and
\* has taken one from it; WAIT_FAILED or any other answer panics.
WinWait(p) ==
    /\ pc[p] = "w_done"
    /\ whnd[p]
    /\ \E fails \in BOOLEAN :
        IF fails
        THEN WinPanic(p)
        ELSE /\ wcount > 0
             /\ wcount' = wcount - 1
             /\ decs' = decs + 1
             /\ last' = [NoOp EXCEPT !.op = "wait", !.proc = p,
                                     !.before = wcount, !.after = wcount',
                                     !.ret = TRUE]
             /\ UNCHANGED <<pc, posts>>
    /\ UNCHANGED <<winFrame, result, arg, whnd>>

\* windows.rs try_wait(), lines 65-72: WaitForSingleObject(handle, 0);
\* WAIT_OBJECT_0 took one from the count, WAIT_TIMEOUT found it 0,
\* WAIT_FAILED or any other answer panics.
WinTryWait(p) ==
    /\ pc[p] = "w_done"
    /\ whnd[p]
    /\ \E fails \in BOOLEAN :
        IF fails
        THEN WinPanic(p)
        ELSE /\ wcount' = IF wcount > 0 THEN wcount - 1 ELSE wcount
             /\ decs' = IF wcount > 0 THEN decs + 1 ELSE decs
             /\ last' = [NoOp EXCEPT !.op = "try_wait", !.proc = p,
                                     !.before = wcount, !.after = wcount',
                                     !.ret = (wcount > 0)]
             /\ UNCHANGED <<pc, posts>>
    /\ UNCHANGED <<winFrame, result, arg, whnd>>

\* windows.rs post(), lines 74-78: ReleaseSemaphore(handle, 1, null); when
\* it answers 0 (the count is at its maximum i32::MAX, or the host fails
\* the call) post panics, having posted nothing.
WinPost(p) ==
    /\ pc[p] = "w_done"
    /\ whnd[p]
    /\ posts < MaxPosts
    /\ \E fails \in BOOLEAN :
        IF fails \/ wcount >= LongMax
        THEN WinPanic(p)
        ELSE /\ wcount' = wcount + 1
             /\ posts' = posts + 1
             /\ last' = [NoOp EXCEPT !.op = "post", !.proc = p,
                                     !.before = wcount, !.after = wcount',
                                     !.ret = TRUE]
             /\ UNCHANGED <<pc, decs>>
    /\ UNCHANGED <<winFrame, result, arg, whnd>>

\* windows.rs Drop, lines 84-90: CloseHandle(handle).  The host destroys
\* the object when its last handle is closed.
WinDrop(p) ==
    /\ whnd[p]
    /\ whnd' = [whnd EXCEPT ![p] = FALSE]
    /\ wcount' = IF \E q \in Procs \ {p} : whnd[q] THEN wcount ELSE -1
    /\ pc' = [pc EXCEPT ![p] = "w_closed"]
    /\ UNCHANGED <<winFrame, ghostOps, result, arg>>

NextWin ==
    \E p \in Procs :
        \/ WinNew(p)
        \/ WinWait(p)
        \/ WinTryWait(p)
        \/ WinPost(p)
        \/ WinDrop(p)

\* A process that comes to a name whose set is there: the joiner's steps of
\* new(), the non-blocking operations, and the handles being dropped.
NextJoin ==
    \E p \in Procs :
        \/ NewSemget(p)
        \/ JoinReopen(p)
        \/ JoinPoll(p)
        \/ Drop(p)
        \/ Terminate(p)
        \/ \E t \in Tids :
            \/ TryWait(p, t)
            \/ Post(p, t)

\* The steps of Semaphore::key, the first thing new() does.
NextKey ==
    \E p \in Procs :
        \/ KeyDir1(p)
        \/ KeyDir2(p)
        \/ KeyOpen(p)
        \/ KeyFtok(p)

\* Signals delivered to threads that sit in wait().
NextIntr == \E p \in Procs : \E t \in Tids : Interrupt(p, t)

Next == NextKey \/ NextNew \/ NextOps \/ NextIntr \/ NextJoin \/ NextWin

\* The state in which every process has returned from new(name, k) with a
\* handle and no operation has been issued: one process created and
\* initialised the set, the others joined it.
InitReady ==
    /\ curId = 1
    /\ nextId = 2
    /\ initCnt \in InitialCounts
    /\ semval = AsShort(initCnt)
    /\ otime = 1
    /\ hist = <<"SETVAL", "SEMOP">>
    /\ semadj = [p \in Procs |-> 0]
    /\ pc = [p \in Procs |-> "done"]
    /\ semid = [p \in Procs |-> 1]
    /\ sem_op = [p \in Procs |-> 0]
    /\ polls = [p \in Procs |-> 0]
    /\ result = [p \in Procs |-> "Ok"]
    /\ \E c \in Procs :
        path = [p \in Procs |-> IF p = c THEN "initializer" ELSE "joiner"]
    /\ thr = [p \in Procs |-> [t \in Tids |-> "ready"]]
    /\ last = NoOp
    /\ decs = 0
    /\ posts = 0
    /\ exits = 0
    /\ arg = [p \in Procs |-> initCnt]
    /\ counts = InitialCounts
    /\ dir = TRUE
    /\ file = TokenInode
    /\ key = [p \in Procs |-> TokenKey]
    /\ fd = [p \in Procs |-> -1]
    /\ openRes = [p \in Procs |-> "none"]
    /\ hostFail = [p \in Procs |-> "none"]
    /\ utf8 = TRUE
    /\ NoWin

\* The state in which one process has created and initialised the set with
\* new(name, k) and holds its handle, and the other has the key and is about
\* to call semget: the name's semaphore exists and is Ready.
InitLate ==
    /\ curId = 1
    /\ nextId = 2
    /\ initCnt \in InitialCounts
    /\ semval = AsShort(initCnt)
    /\ otime = 1
    /\ hist = <<"SETVAL", "SEMOP">>
    /\ semadj = [p \in Procs |-> 0]
    /\ \E c \in Procs :
        /\ pc = [p \in Procs |-> IF p = c THEN "done" ELSE "idle"]
        /\ semid = [p \in Procs |-> IF p = c THEN 1 ELSE 0]
        /\ result = [p \in Procs |-> IF p = c THEN "Ok" ELSE "none"]
        /\ path = [p \in Procs |-> IF p = c THEN "initializer" ELSE "none"]
        /\ thr = [p \in Procs |->
                    [t \in Tids |-> IF p = c THEN "ready" ELSE "none"]]
        /\ arg = [p \in Procs |-> IF p = c THEN initCnt ELSE 0]
    /\ sem_op = [p \in Procs |-> 0]
    /\ polls = [p \in Procs |-> 0]
    /\ last = NoOp
    /\ decs = 0
    /\ posts = 0
    /\ exits = 0
    /\ counts = InitialCounts
    /\ dir = TRUE
    /\ file = TokenInode
    /\ key = [p \in Procs |-> TokenKey]
    /\ fd = [p \in Procs |-> -1]
    /\ openRes = [p \in Procs |-> "none"]
    /\ hostFail = [p \in Procs |-> "none"]
    /\ utf8 = TRUE
    /\ NoWin

\* Init with callers that pass counts at the edges of c_short.
InitWide ==
    /\ curId = 0
    /\ nextId = 1
    /\ semval = 0
    /\ otime = 0
    /\ hist = <<>>
    /\ initCnt = 0
    /\ semadj = [p \in Procs |-> 0]
    /\ pc = [p \in Procs |-> "idle"]
    /\ semid = [p \in Procs |-> 0]
    /\ sem_op = [p \in Procs |-> 0]
    /\ polls = [p \in Procs |-> 0]
    /\ result = [p \in Procs |-> "none"]
    /\ path = [p \in Procs |-> "none"]
    /\ thr = [p \in Procs |-> [t \in Tids |-> "none"]]
    /\ last = NoOp
    /\ decs = 0
    /\ posts = 0
    /\ exits = 0
    /\ arg = [p \in Procs |-> 0]
    /\ counts = WideCounts
    /\ dir = TRUE
    /\ file = TokenInode
    /\ key = [p \in Procs |-> TokenKey]
    /\ fd = [p \in Procs |-> -1]
    /\ openRes = [p \in Procs |-> "none"]
    /\ hostFail = [p \in Procs |-> "none"]
    /\ utf8 = TRUE
    /\ NoWin

\* The whole program: key derivation, construction, then operations.
Spec == InitKey /\ [][Next]_vars
\* Key derivation alone: the processes race through Semaphore::key.
SpecKey == InitKey /\ [][NextKey]_vars
\* Construction alone: the processes race through new().
SpecNew == Init /\ [][NextNew]_vars
\* Construction by callers that pass counts at the edges of c_short.
SpecWide == InitWide /\ [][NextNew]_vars
\* Operations alone, on the handles construction returned.
SpecOps == InitReady /\ [][NextOps]_vars
\* Operations, with signals interrupting the threads blocked in wait().
SpecOpsIntr == InitReady /\ [][NextOps \/ NextIntr]_vars
\* A process joining a semaphore that exists and is Ready, while the
\* handles on it are used and dropped.
\* handles on it are used and dropped: on the build for unix the set
\* exists and is Ready, on the build for Windows the named object is created
\* by whoever comes first.
SpecJoin == (InitLate \/ InitWin) /\ [][NextJoin \/ NextWin]_vars
\* Construction, with every process that is inside the sem_otime loop
\* getting to run it.
SpecNewFair == SpecNew /\ \A p \in Procs : WF_vars(JoinPoll(p))

\* Operations, with every thread that sits in the semop of wait() getting
\* to complete it when the value stays positive.
SpecOpsFair ==
    SpecOps /\ \A p \in Procs : \A t \in Tids : WF_vars(WaitReturn(p, t))

\* ------------------------------------------------------------ properties

\* Every process has returned from new() with a handle.
AllConstructed == \A p \in Procs : pc[p] = "done" /\ result[p] = "Ok"

Initializers == {p \in Procs : path[p] = "initializer"}
Joiners == {p \in Procs : path[p] = "joiner"}

\* The set for the key exists, its creator stopped before the semop that
\* initialises it, and nobody is left to finish: Allocated-Uninitialized
\* for good.
Orphaned ==
    /\ curId # 0
    /\ otime = 0
    /\ \A p \in Procs :
        ~(semid[p] = curId /\ pc[p] \in {"created", "setval_done"})

\* C1: when the processes race through new() on an Unborn key and every
\* call returns a handle, exactly one of them took the initializer path
\* (exclusive create succeeded, SETVAL and semop made) and all the others
\* the joiner path (EEXIST, reopen, poll); and at no time do two processes
\* hold a successful exclusive create of the same set.
C1_OneInitializer ==
    /\ \A p, q \in Initializers : semid[p] = semid[q] => p = q
    /\ AllConstructed =>
        /\ Cardinality(Initializers) = 1
        /\ Cardinality(Joiners) = Cardinality(Procs) - 1

C1_Witness ==
    /\ AllConstructed
    /\ Cardinality(Initializers) = 1
    /\ Cardinality(Joiners) >= 1

\* C2: once every call of new(name, k) has returned a handle, and before
\* any operation, the set is Ready and its value is k: SETVAL and the
\* increment by k were applied once each, and every handle names that set.
C2_CountIsK ==
    AllConstructed =>
        /\ curId # 0
        /\ otime # 0
        /\ semval = initCnt
        /\ hist = <<"SETVAL", "SEMOP">>
        /\ \A p \in Procs : semid[p] = curId

C2_Witness ==
    /\ AllConstructed
    /\ semval = initCnt
    /\ initCnt = MaxCount

\* C3: a call of new() that returned Ok, by either path, holds the id of a
\* set that exists, on which SETVAL and then the semop were made and whose
\* sem_otime is non-zero; and sem_otime is non-zero only once the semop was
\* made, never after SETVAL alone.
C3_OnlyReady ==
    /\ \A p \in Procs :
        result[p] = "Ok" =>
            /\ semid[p] = curId
            /\ curId # 0
            /\ otime # 0
            /\ hist = <<"SETVAL", "SEMOP">>
    /\ otime # 0 => (hist # <<>> /\ hist[Len(hist)] = "SEMOP")
    /\ hist = <<"SETVAL">> => otime = 0

C3_Witness ==
    \E p, q \in Procs :
        /\ result[p] = "Ok" /\ path[p] = "joiner"
        /\ pc[q] = "done" /\ result[q] = "Ok" /\ path[q] = "initializer"

\* C4, the state part: on a set left Allocated-Uninitialized for good, a
\* joiner's new() that has returned made exactly PollAttempts reads of
\* sem_otime and returned TimedOut, without a handle; a process inside the
\* loop has made fewer reads than that and its next read can be made.
C4_Bounded ==
    /\ \A p \in Procs :
        /\ (Orphaned /\ path[p] = "joiner" /\ semid[p] = curId
                /\ pc[p] = "done") =>
            /\ result[p] = "TimedOut"
            /\ polls[p] = PollAttempts
            /\ thr[p] = [t \in Tids |-> "none"]
        /\ result[p] = "TimedOut" => polls[p] = PollAttempts
        /\ pc[p] = "polling" => (polls[p] < PollAttempts /\ ENABLED JoinPoll(p))

\* C4: on a set left Allocated-Uninitialized for good, a joiner's new()
\* returns after exactly PollAttempts reads of sem_otime, with TimedOut and
\* without a handle; and every process that is inside the loop leaves it:
\* new() never blocks there.
C4_OrphanTimesOut ==
    /\ []C4_Bounded
    /\ \A p \in Procs : (pc[p] = "polling") ~> (pc[p] # "polling")

C4_Witness ==
    \E p \in Procs :
        /\ Orphaned
        /\ semid[p] = curId
        /\ result[p] = "TimedOut"
        /\ polls[p] = PollAttempts

\* C5: a process whose exclusive create succeeded and whose new() returned
\* an error has destroyed the set it allocated: that set is not the one
\* that exists for the key, so the key is Unborn or holds a set a later
\* caller created afresh.
C5_RollbackDestroys ==
    \A p \in Procs :
        (path[p] = "initializer" /\ result[p] = "Err") => semid[p] # curId

C5_Witness ==
    \E p, q \in Procs :
        /\ path[p] = "initializer" /\ result[p] = "Err"
        /\ path[q] = "initializer" /\ result[q] = "Ok"
        /\ semid[q] = curId

Waiting == {c \in Procs \X Tids : thr[c[1]][c[2]] = "waiting"}

\* C6: the handles of the separate processes name one set and share its
\* count.  While no process has terminated (termination undoes decrements),
\* the successful decrements never exceed initial_count plus the posts, and
\* the value is initial_count + posts - decrements; with no post, a
\* try_wait on any handle answers false only after exactly initial_count
\* decrements, and after that many the value is 0.
C6_SharedCount ==
    /\ \A p \in Procs : pc[p] = "done" => semid[p] = curId
    /\ exits = 0 =>
        /\ decs <= initCnt + posts
        /\ semval = initCnt + posts - decs
        /\ (posts = 0 /\ last.op = "try_wait" /\ ~last.ret) => decs = initCnt
        /\ (posts = 0 /\ decs = initCnt) => semval = 0

C6_Witness ==
    /\ exits = 0
    /\ posts = 0
    /\ initCnt = MaxCount
    /\ decs = initCnt
    /\ last.op = "try_wait"
    /\ ~last.ret
    /\ \E p, q \in Procs : p # q /\ semadj[p] > 0 /\ semadj[q] > 0

\* C7: try_wait never blocks: a thread that holds the handle can always
\* complete it.  On a zero count it answers false and the count and the
\* undo adjustment stay; on a count of at least 1 it answers true and the
\* count is one less.
C7_TryWait ==
    /\ \A p \in Procs : \A t \in Tids :
        thr[p][t] = "ready" => ENABLED TryWait(p, t)
    /\ last.op = "try_wait" =>
        IF last.before = 0
        THEN ~last.ret /\ last.after = 0 /\ last.adjAfter = last.adjBefore
        ELSE last.ret /\ last.after = last.before - 1

\* new(name, 0) on a fresh name, then try_wait: false.
C7_Witness ==
    /\ initCnt = 0
    /\ posts = 0
    /\ decs = 0
    /\ last.op = "try_wait"
    /\ last.before = 0
    /\ ~last.ret
    /\ semval = 0

\* C8: the count is never negative; a wait that returned found a count of
\* at least 1 and left it one less; and while the count is 0 no thread
\* that sits in wait can return.
C8_Wait ==
    /\ semval >= 0
    /\ last.op = "wait" =>
        /\ last.ret
        /\ last.before >= 1
        /\ last.after = last.before - 1
    /\ semval = 0 =>
        \A p \in Procs : \A t \in Tids :
            thr[p][t] = "waiting" => ~ENABLED WaitReturn(p, t)

C8_Witness ==
    /\ last.op = "wait"
    /\ last.after = 0
    /\ semval = 0
    /\ Waiting # {}

\* C9, the state part: a post that returned left the count exactly one
\* higher.
C9_PostAddsOne ==
    last.op = "post" => (last.ret /\ last.after = last.before + 1)

\* C9, the step part: no step lets more than one thread out of wait, a
\* thread leaves wait only by taking one from a positive count, and the
\* step of a post lets none out by itself.
C9_OneWaiterPerUnit ==
    LET out == {c \in Waiting : thr'[c[1]][c[2]] = "ready"}
    IN  /\ Cardinality(out) <= 1
        /\ out # {} => (semval >= 1 /\ semval' = semval - 1)
        /\ posts' # posts => out = {}

\* C9: post adds exactly one to the count and releases at most one blocked
\* waiter, and a thread blocked in wait returns once the count is positive
\* and stays so until the thread has run.
C9_Post ==
    /\ []C9_PostAddsOne
    /\ [][C9_OneWaiterPerUnit]_vars
    /\ \A p \in Procs : \A t \in Tids :
        (thr[p][t] = "waiting" /\ semval > 0)
            ~> (thr[p][t] # "waiting" \/ semval = 0)

\* One post on a zero count with three threads in wait: one has returned,
\* two are still blocked.
C9_Witness ==
    /\ initCnt = 0
    /\ exits = 0
    /\ posts = 1
    /\ decs = 1
    /\ last.op = "wait"
    /\ semval = 0
    /\ Cardinality(Waiting) >= 2

\* C10: a post made right after a wait through the same handle, nothing
\* else touching the set in between, leaves the count and the process's
\* undo adjustment what they were before the wait.
C10_RoundTrip ==
    (last.op = "post" /\ last.pre.op = "wait") =>
        /\ last.pre.before >= 1
        /\ last.after = last.pre.before
        /\ last.adjAfter = last.pre.adjBefore

C10_Witness ==
    /\ last.op = "post"
    /\ last.pre.op = "wait"
    /\ semval = last.pre.before
    /\ semadj[last.proc] = last.pre.adjBefore

\* The sum of f over the set S.
RECURSIVE SumOver(_, _)
SumOver(f, S) ==
    IF S = {} THEN 0
    ELSE LET x == CHOOSE y \in S : TRUE
         IN  f[x] + SumOver(f, S \ {x})

\* C11: every decrement made by wait or try_wait adds one to the calling
\* process's undo adjustment, and a post takes one off it; when the process
\* terminates the kernel adds the adjustment to the value and clears it, so
\* with d decrements not matched by a post the value goes up by exactly d,
\* to what it would be had they not been made.
C11_UndoOnExit ==
    /\ (last.op \in {"wait", "try_wait"} /\ last.ret) =>
        /\ last.after = last.before - 1
        /\ last.adjAfter = last.adjBefore + 1
    /\ last.op = "post" => last.adjAfter = last.adjBefore - 1
    /\ last.op = "exit" =>
        /\ last.adjAfter = 0
        /\ last.after = Clamp(last.before + last.adjBefore)
        /\ last.adjBefore >= 0 => last.after = last.before + last.adjBefore
    /\ exits = 0 => SumOver(semadj, Procs) = decs - posts

\* A process that held two outstanding decrements has terminated and the
\* value is back at initial_count.
C11_Witness ==
    /\ last.op = "exit"
    /\ last.adjBefore = 2
    /\ posts = 0
    /\ decs = 2
    /\ exits = 1
    /\ semval = initCnt

\* C12, the state part: no thread is lost to an interrupt; a wait that was
\* interrupted and returned found a count of at least 1, left it one less
\* and registered the decrement; and a thread that retries after EINTR is
\* blocked while the count is 0 and can complete when it is positive.
C12_RetryDecrements ==
    /\ \A p \in Procs : \A t \in Tids :
        /\ thr[p][t] # "panicked"
        /\ thr[p][t] = "retrying" =>
            IF semval = 0 THEN ~ENABLED WaitReturn(p, t)
            ELSE ENABLED WaitReturn(p, t)
    /\ (last.op = "wait" /\ last.intr) =>
        /\ last.ret
        /\ last.before >= 1
        /\ last.after = last.before - 1
        /\ last.adjAfter = last.adjBefore + 1

\* C12, the step part: the step in which a blocked wait is interrupted
\* changes only that thread's position in the loop: the set, the undo
\* adjustments, the other threads and what has returned stay.
C12_InterruptChangesNothing ==
    \A p \in Procs : \A t \in Tids :
        (thr[p][t] = "waiting" /\ thr'[p][t] = "retrying") =>
            /\ UNCHANGED <<kernelVars, semadj, ghostOps>>
            /\ \A q \in Procs : \A u \in Tids :
                <<q, u>> # <<p, t>> => thr'[q][u] = thr[q][u]

\* C12: an interrupt delivered to a thread blocked in wait changes neither
\* the count nor the undo state; the thread stays in wait, retrying the
\* blocking call, and returns only by a successful decrement, never early
\* and never by a panic.
C12_InterruptInvisible ==
    /\ []C12_RetryDecrements
    /\ [][C12_InterruptChangesNothing]_vars

\* A wait on a zero count was interrupted, a post came, and the wait
\* returned with the unit.
C12_Witness ==
    /\ initCnt = 0
    /\ last.op = "wait"
    /\ last.intr
    /\ last.before = 1
    /\ semval = 0
    /\ posts = 1

\* new() ended without a handle: it returned an error or it panicked.
Failed(p) == pc[p] = "panicked" \/ (pc[p] = "done" /\ result[p] # "Ok")

\* C13: however the calls of Semaphore::key for the one name interleave,
\* every key returned is the ftok of the one token file that exists, so all
\* of them are equal; a call that found the token file there (EEXIST) goes
\* on like one that created it; and a call fails only when the host failed
\* one of its own calls (mkdir, open, ftok), handed it descriptor 0, or
\* the path of the token file is not UTF-8 (then it panics with nothing
\* opened), never for the directory or the file having been made by
\* another process.
C13_KeyConverges ==
    /\ \A p, q \in Procs : (key[p] # 0 /\ key[q] # 0) => key[p] = key[q]
    /\ \A p \in Procs :
        /\ key[p] # 0 =>
            (dir /\ file # 0 /\ key[p] = Ftok(file, TokenDev, ProjId))
        /\ Failed(p) =>
            (hostFail[p] # "none" \/ openRes[p] = "fd0" \/ ~utf8)
        /\ pc[p] = "panicked" =>
            \/ hostFail[p] = "mkdir"
            \/ ~utf8 /\ hostFail[p] = "none" /\ openRes[p] = "none"
        /\ (openRes[p] # "none" \/ key[p] # 0) => utf8
        /\ openRes[p] = "EEXIST" =>
            (pc[p] \in {"opened", "idle"} \/ hostFail[p] = "ftok")

\* Neither the directory nor the file existed; one process created the
\* file, the other found it there, and both hold the same key.
C13_Witness ==
    \E p, q \in Procs :
        /\ openRes[p] = "fd"
        /\ openRes[q] = "EEXIST"
        /\ pc[p] = "idle" /\ pc[q] = "idle"
        /\ key[p] = key[q]
        /\ key[p] = Ftok(file, TokenDev, ProjId)

\* C14: a call of new() that fails returns an error, it never panics; when
\* the second create_dir_all fails, new() has returned Err and no set
\* exists for the key.
C14_FailureIsErr ==
    \A p \in Procs :
        /\ pc[p] # "panicked"
        /\ hostFail[p] = "mkdir" =>
            (pc[p] = "done" /\ result[p] = "Err" /\ curId = 0)

\* C20: whenever the open of the token file succeeded, with descriptor 0 or
\* any other, the descriptor is closed and key() goes on to ftok; on EEXIST
\* it goes on too; key() returns an error at this step only when open
\* failed with something else.
C20_OpenOutcomes ==
    \A p \in Procs :
        /\ openRes[p] \in {"fd", "fd0"} =>
            /\ fd[p] = -1
            /\ pc[p] \in {"opened", "idle"} \/ hostFail[p] = "ftok"
        /\ openRes[p] = "EEXIST" =>
            (pc[p] \in {"opened", "idle"} \/ hostFail[p] = "ftok")
        /\ openRes[p] = "error" => (pc[p] = "done" /\ result[p] = "Err")

\* The build is the one for unix: no process runs the code of windows.rs.
OnUnix ==
    \A p \in Procs : pc[p] \notin {"w_idle", "w_done", "w_closed", "w_panicked"}

\* C15, the state part: whatever handles have been dropped, the set is
\* there and Ready; every handle, of a process that joined before or after,
\* names it and no operation on it has panicked; a drop left the value and
\* the undo adjustment as they were; and the count is what the operations
\* made it.
C15_SetOutlivesHandles ==
    OnUnix =>
        /\ curId = 1
        /\ otime # 0
        /\ hist = <<"SETVAL", "SEMOP">>
        /\ \A p \in Procs :
            /\ pc[p] = "done" => (result[p] = "Ok" /\ semid[p] = curId)
            /\ \A t \in Tids :
                thr[p][t] # "panicked"
                /\ (thr[p][t] = "ready" => ENABLED TryWait(p, t))
        /\ last.op = "drop" =>
            (last.after = last.before /\ last.adjAfter = last.adjBefore)
        /\ exits = 0 => semval = initCnt + posts - decs

\* C15, the step part: the step that drops a handle changes nothing of the
\* set, of the undo adjustments and of the other processes.
C15_DropChangesNothing ==
    \A p \in Procs :
        (pc[p] = "done" /\ pc'[p] = "dropped") =>
            /\ UNCHANGED <<kernelVars, semadj, semid>>
            /\ \A q \in Procs \ {p} : thr'[q] = thr[q] /\ pc'[q] = pc[q]

\* C15: on unix.rs dropping a handle changes nothing in the kernel: the set
\* exists, its count and sem_otime stay, the other handles keep working and
\* a process that calls new() afterwards joins the same set.
C15_DropKeepsSet ==
    /\ []C15_SetOutlivesHandles
    /\ [][C15_DropChangesNothing]_vars

\* The creator has dropped its handle, no handle is left, and the set is
\* there with its count for the process that is about to call semget.
C15_Witness ==
    \E p, q \in Procs :
        /\ pc[p] = "dropped"
        /\ path[p] = "initializer"
        /\ pc[q] = "idle"
        /\ last.op = "drop"
        /\ curId = semid[p]
        /\ otime # 0
        /\ semval = initCnt
        /\ initCnt = MaxCount

\* C16, the state part: a process that called new() for the name whose set
\* exists and is Ready took the joiner path, never the creator's steps, and
\* returned Ok with the id of that set; no second set was allocated.  On
\* windows.rs a handle names an object that exists.
C16_JoinsExisting ==
    /\ OnUnix =>
        /\ nextId = 2
        /\ Cardinality(Initializers) = 1
        /\ \A p \in Procs :
            /\ pc[p] \notin {"created", "setval_done"}
            /\ (path[p] = "joiner" /\ pc[p] = "done") =>
                (result[p] = "Ok" /\ semid[p] = curId /\ polls[p] = 0)
    /\ \A p \in Procs : whnd[p] => wcount >= 0

\* C16, the step part: no step of a new() that found the semaphore there
\* writes to it: on unix.rs the set, its value, its sem_otime and the undo
\* adjustments stay through the joiner's steps; on windows.rs the count of
\* an object that exists stays through CreateSemaphoreW.
C16_JoinWritesNothing ==
    \A p \in Procs :
        /\ (pc[p] \in {"idle", "eexist", "polling"} /\ pc'[p] # pc[p]
                /\ pc'[p] # "exited") =>
            UNCHANGED <<kernelVars, semadj>>
        /\ (pc[p] = "w_idle" /\ pc'[p] = "w_done" /\ wcount >= 0) =>
            /\ wcount' = wcount
            /\ result'[p] = "Ok" => whnd'[p]

\* C16: new(name, k) for a name whose semaphore exists and is Ready returns
\* a handle to that semaphore and leaves its count as it was, whatever k is.
C16_JoinIgnoresCount ==
    /\ []C16_JoinsExisting
    /\ [][C16_JoinWritesNothing]_vars

\* The set was created with MaxCount; a process joined it with another
\* count and the value is still MaxCount.
C16_Witness ==
    \E p \in Procs :
        /\ path[p] = "joiner"
        /\ pc[p] = "done"
        /\ result[p] = "Ok"
        /\ semid[p] = curId
        /\ arg[p] # initCnt
        /\ initCnt = MaxCount
        /\ semval = initCnt
        /\ decs = 0 /\ posts = 0 /\ exits = 0

\* C17, the state part: a process that lost the exclusive create never
\* makes the creator's steps and allocates no set (every set allocated has
\* its own creator); when the set it lost to is gone, before its reopen or
\* while it polls, its new() has returned an error (the host's, or TimedOut
\* when it gave up before the set went) and no handle; and a joiner that
\* returned Ok holds the id of the set that exists.
C17_LoserState ==
    /\ nextId - 1 = Cardinality(Initializers)
    /\ \A p \in Joiners :
        /\ pc[p] \notin {"idle", "created", "setval_done"}
        /\ (pc[p] = "done" /\ semid[p] # curId) =>
            /\ result[p] \in {"Err", "TimedOut"}
            /\ thr[p] = [t \in Tids |-> "none"]
        /\ (pc[p] = "done" /\ result[p] = "Ok") =>
            (curId # 0 /\ semid[p] = curId)

\* C17, the step part: once on the joiner path a call stays on it: it is
\* not taken back to the exclusive create and it leaves the sets alone.
C17_LoserStep ==
    \A p \in Procs :
        (path[p] = "joiner" /\ pc[p] \in {"eexist", "polling"}) =>
            /\ path'[p] = "joiner"
            /\ pc'[p] \in {"eexist", "polling", "done", "exited"}
            /\ pc'[p] # pc[p] => UNCHANGED <<curId, nextId, hist, initCnt>>

\* C17: a process that lost the exclusive create and whose set vanished
\* before or during its join gets an error from new(): it does not retry
\* the exclusive create, does not create or initialise a set, and does not
\* return a handle to the destroyed set.
C17_LoserReportsVanished ==
    /\ []C17_LoserState
    /\ [][C17_LoserStep]_vars

\* The creator rolled back while the loser was polling the set: both calls
\* returned Err and no set exists.
C17_Witness ==
    \E p, q \in Procs :
        /\ path[p] = "joiner"
        /\ pc[p] = "done"
        /\ result[p] = "Err"
        /\ semid[p] # 0
        /\ path[q] = "initializer"
        /\ result[q] = "Err"
        /\ semid[q] = semid[p]
        /\ curId = 0

\* C18: whatever count the caller passes, the creator's semop adds exactly
\* that count and can complete at once; a creator that returned Ok left the
\* value equal to the count it was given, and one that returned an error
\* removed its set.
C18_InitialCountApplied ==
    \A p \in Initializers :
        /\ pc[p] = "setval_done" =>
            (sem_op[p] = arg[p] /\ SemopCan(semval, sem_op[p]))
        /\ (pc[p] = "done" /\ result[p] = "Ok" /\ semid[p] = curId) =>
            semval = arg[p]
        /\ (pc[p] = "done" /\ result[p] # "Ok") => semid[p] # curId

\* C19: the exit of a process never lowers the value: it adds back the
\* decrements the process made and did not match with a post, and when
\* there are none it leaves the value as it is, so what the process posted
\* stays available to the others.
C19_ExitNeverLowers ==
    last.op = "exit" =>
        /\ last.after >= last.before
        /\ last.adjBefore <= 0 => last.after = last.before
====
